---------------------------- MODULE Spec2Model ----------------------------
(***************************************************************************)
(* A model of the fcp request codec (src/src/lib.rs).                      *)
(*                                                                         *)
(* The codec is a set of pure functions from byte slices to typed requests *)
(* and back.  A byte is an integer 0..255, a byte slice a sequence of      *)
(* bytes.  The functions are operators that compute what the code          *)
(* computes; the state machine calls them on inputs drawn from bounded     *)
(* sets and records the argument, the locals of Request::parse and the     *)
(* returned value.                                                         *)
(***************************************************************************)
EXTENDS Integers, Sequences, FiniteSets, TLC

VARIABLES
    pc,      \* "idle" | "rendered" | "done"
    entry,   \* the function that was called
    input,   \* the byte slice handed to the parser (or produced by Display)
    method,  \* Request::parse's local `method`
    val,     \* Request::parse's local `val` (an Option), or the sub-parser's argument
    req,     \* the Request value handed to Display
    result   \* the returned Result

vars == <<pc, entry, input, method, val, req, result>>

(***************************************************************************)
(* Bytes that the source names as literals.                                *)
(***************************************************************************)
SPACE == 32
CH_a == 97
CH_v == 118
CH_PERCENT == 37
CH_PLUS == 43
CH_MINUS == 45
CH_ZERO == 48
RADIX == 10

GET == <<71, 69, 84>>          \* b"GET"
SET == <<83, 69, 84>>          \* b"SET"
ADJ == <<65, 68, 74>>          \* b"ADJ"

(***************************************************************************)
(* Values: Error, Option, Result, the request enums.                       *)
(***************************************************************************)
Errors == {"UnknownRequestType", "InvalidValue", "MissingValue", "Empty"}

Some(x) == [some |-> TRUE, v |-> x]
None == [some |-> FALSE]

Ok(x) == [tag |-> "Ok", v |-> x]
Err(e) == [tag |-> "Err", e |-> e]
Panic == [tag |-> "Panic"]
Pending == [tag |-> "Pending"]

\* enum GetRequest: a variant with no payload
GetRequest(name) == [variant |-> name]
GetVariants ==
    {GetRequest(name) : name \in {"All", "Config", "Percentage", "Temperature", "Voltage"}}

Auto == [variant |-> "Auto"]
Voltage(n) == [variant |-> "Voltage", n |-> n]
Percentage(n) == [variant |-> "Percentage", n |-> n]

ReqGet(r) == [kind |-> "Get", r |-> r]
ReqSet(r) == [kind |-> "Set", r |-> r]
ReqAdj(r) == [kind |-> "Adj", r |-> r]

NoRequest == [kind |-> "none"]

\* .map(Self::Get), .map(Self::Set), .map(Self::Adj)
MapGet(r) == IF r.tag = "Ok" THEN Ok(ReqGet(r.v)) ELSE r
MapSet(r) == IF r.tag = "Ok" THEN Ok(ReqSet(r.v)) ELSE r
MapAdj(r) == IF r.tag = "Ok" THEN Ok(ReqAdj(r.v)) ELSE r

\* The integer types of the payloads.
U16 == [signed |-> FALSE, min |-> 0, max |-> 65535]
U8 == [signed |-> FALSE, min |-> 0, max |-> 255]
I16 == [signed |-> TRUE, min |-> -32768, max |-> 32767]
I8 == [signed |-> TRUE, min |-> -128, max |-> 127]

(***************************************************************************)
(* Slices.  At(s, i) is s[i] with i counted from 0; outside the slice the  *)
(* index panics.  From(s, i) is &s[i..].                                   *)
(***************************************************************************)
InBounds(s, i) == i >= 0 /\ i < Len(s)
At(s, i) == s[i + 1]
From(s, i) == SubSeq(s, i + 1, Len(s))

\* s.splitn(2, |b| *b == b' '): the pieces, at most two.  The empty slice
\* yields one empty piece.
RECURSIVE FirstSpace(_, _)
FirstSpace(s, i) ==
    IF i >= Len(s) THEN Len(s)
    ELSE IF At(s, i) = SPACE THEN i
    ELSE FirstSpace(s, i + 1)

\* Fault: the input is split at every space (split, not splitn(2)) and the
\* second piece is taken as the value.
SplitEvery(s) ==
    LET k == FirstSpace(s, 0) IN
    IF k = Len(s) THEN <<s>>
    ELSE
        LET rest == From(s, k + 1) IN
        <<SubSeq(s, 1, k), SubSeq(rest, 1, FirstSpace(rest, 0))>>

Splitn2(s) ==
    LET k == FirstSpace(s, 0) IN
    IF k = Len(s) THEN <<s>>
    ELSE <<SubSeq(s, 1, k), From(s, k + 1)>>

(***************************************************************************)
(* str::from_utf8_unchecked(bytes).parse::<T>()                            *)
(*                                                                         *)
(* from_utf8_unchecked reinterprets the bytes as a str without looking at  *)
(* them; the caller does not validate them, so the str may hold bytes that *)
(* are not UTF-8.  That breaks the function's documented precondition, a   *)
(* library invariant of str and not a validity requirement of the          *)
(* language: what happens next is decided by the one function that gets    *)
(* the str, the integer parser.  It reads the str through as_bytes(), one  *)
(* byte at a time, and converts each with (c as char).to_digit(10); it     *)
(* never decodes UTF-8, so such a slice takes the same path as any other   *)
(* and the first byte that is not an ASCII digit ends the parse with       *)
(* InvalidDigit.                                                           *)
(***************************************************************************)
FromUtf8Unchecked(bytes) == bytes

ToDigit(c) == IF c >= CH_ZERO /\ c < CH_ZERO + RADIX THEN Some(c - CH_ZERO) ELSE None

CheckedMul(a, b, ty) ==
    IF a * b >= ty.min /\ a * b <= ty.max THEN Some(a * b) ELSE None

\* Fault: the addition wraps around the type's range instead of failing.
CheckedAddWrapping(a, b, ty) ==
    Some(ty.min + ((a + b - ty.min) % (ty.max - ty.min + 1)))

CheckedAdd(a, b, ty) ==
    IF a + b >= ty.min /\ a + b <= ty.max THEN Some(a + b) ELSE None

CheckedSub(a, b, ty) ==
    IF a - b >= ty.min /\ a - b <= ty.max THEN Some(a - b) ELSE None

ParseOk(n) == [ok |-> TRUE, n |-> n]
ParseIntError(kind) == [ok |-> FALSE, kind |-> kind]

RECURSIVE Accumulate(_, _, _, _)
Accumulate(digits, acc, positive, ty) ==
    IF digits = <<>> THEN ParseOk(acc)
    ELSE
        LET x == ToDigit(Head(digits)) IN
        IF ~x.some THEN ParseIntError("InvalidDigit")
        ELSE
            LET m == CheckedMul(acc, RADIX, ty) IN
            IF ~m.some
            THEN ParseIntError(IF positive THEN "PosOverflow" ELSE "NegOverflow")
            ELSE
                LET a == IF positive THEN CheckedAdd(m.v, x.v, ty)
                                     ELSE CheckedSub(m.v, x.v, ty)
                IN
                IF ~a.some
                THEN ParseIntError(IF positive THEN "PosOverflow" ELSE "NegOverflow")
                ELSE Accumulate(Tail(digits), a.v, positive, ty)

\* Fault: a leading '-' is taken as a sign for every type.
MinusIsSignAlways(ty) == TRUE

\* Whether a leading '-' is taken as a sign: only for a signed type.
MinusIsSign(ty) == ty.signed

FromStrRadix(src, ty) ==
    IF src = <<>> THEN ParseIntError("Empty")
    ELSE
        LET c == Head(src) IN
        IF c \in {CH_PLUS, CH_MINUS} /\ Tail(src) = <<>>
        THEN ParseIntError("InvalidDigit")
        ELSE IF c = CH_PLUS THEN Accumulate(Tail(src), 0, TRUE, ty)
        ELSE IF c = CH_MINUS /\ MinusIsSign(ty) THEN Accumulate(Tail(src), 0, FALSE, ty)
        ELSE Accumulate(src, 0, TRUE, ty)

ParseNumber(bytes, ty) == FromStrRadix(FromUtf8Unchecked(bytes), ty)

(***************************************************************************)
(* GetRequest                                                              *)
(***************************************************************************)
\* Fault: a token is matched as a prefix of the value (starts_with).
StartsWith(v, t) == Len(v) >= Len(t) /\ SubSeq(v, 1, Len(t)) = t

GetRequestParsePrefix(v) ==
    IF StartsWith(v, <<97, 108, 108>>) THEN Ok(GetRequest("All"))
    ELSE IF StartsWith(v, <<37>>) THEN Ok(GetRequest("Percentage"))
    ELSE IF StartsWith(v, <<99, 102, 103>>) THEN Ok(GetRequest("Config"))
    ELSE IF StartsWith(v, <<118, 111, 108, 116>>) THEN Ok(GetRequest("Voltage"))
    ELSE IF StartsWith(v, <<116, 101, 109, 112>>) THEN Ok(GetRequest("Temperature"))
    ELSE Err("InvalidValue")

GetRequestParse(v) ==
    IF v = <<97, 108, 108>> THEN Ok(GetRequest("All"))     \* b"all"
    ELSE IF v = <<37>> THEN Ok(GetRequest("Percentage"))   \* b"%"
    ELSE IF v = <<99, 102, 103>> THEN Ok(GetRequest("Config")) \* b"cfg"
    ELSE IF v = <<118, 111, 108, 116>> THEN Ok(GetRequest("Voltage")) \* b"volt"
    ELSE IF v = <<116, 101, 109, 112>> THEN Ok(GetRequest("Temperature")) \* b"temp"
    ELSE Err("InvalidValue")

ValStr(g) ==
    CASE g.variant = "All" -> <<97, 108, 108>>             \* b"all"
      [] g.variant = "Voltage" -> <<118, 111, 108, 116>>   \* b"volt"
      [] g.variant = "Config" -> <<99, 102, 103>>          \* b"cfg"
      [] g.variant = "Temperature" -> <<116, 101, 109, 112>> \* b"temp"
      [] g.variant = "Percentage" -> <<37>>                \* b"%"

(***************************************************************************)
(* SetRequest                                                              *)
(***************************************************************************)
\* Fault: the emptiness guard is missing.
IsEmptyNever(v) == FALSE

\* val.is_empty(), the guard in front of val[0]
IsEmpty(v) == Len(v) = 0

\* Fault: the 'a' arm has no length guard.
AutoGuardNone(v) == TRUE

\* the match guard of the 'a' arm
AutoGuard(v) == Len(v) = 1

\* Fault: the empty value is reported like any other bad value.
SetRequestParseNoMissing(v) ==
    IF ~InBounds(v, 0) THEN Err("InvalidValue")
    ELSE
        LET b == At(v, 0) IN
        IF b = CH_a /\ Len(v) = 1 THEN Ok(Auto)
        ELSE IF b = CH_v THEN
            LET n == ParseNumber(From(v, 1), U16) IN
            IF n.ok THEN Ok(Voltage(n.n)) ELSE Err("InvalidValue")
        ELSE IF b = CH_PERCENT THEN
            LET n == ParseNumber(From(v, 1), U8) IN
            IF n.ok THEN Ok(Percentage(n.n)) ELSE Err("InvalidValue")
        ELSE Err("InvalidValue")

SetRequestParse(v) ==
    IF IsEmpty(v) THEN Err("MissingValue")
    ELSE IF ~InBounds(v, 0) THEN Panic
    ELSE
        LET b == At(v, 0) IN
        IF b = CH_a /\ AutoGuard(v) THEN Ok(Auto)
        ELSE IF b = CH_v THEN
            LET n == ParseNumber(From(v, 1), U16) IN
            IF n.ok THEN Ok(Voltage(n.n)) ELSE Err("InvalidValue")
        ELSE IF b = CH_PERCENT THEN
            LET n == ParseNumber(From(v, 1), U8) IN
            IF n.ok THEN Ok(Percentage(n.n)) ELSE Err("InvalidValue")
        ELSE Err("InvalidValue")

(***************************************************************************)
(* AdjRequest                                                              *)
(***************************************************************************)
AdjRequestParse(v) ==
    IF IsEmpty(v) THEN Err("MissingValue")
    ELSE IF ~InBounds(v, 0) THEN Panic
    ELSE
        LET b == At(v, 0) IN
        IF b = CH_v THEN
            LET n == ParseNumber(From(v, 1), I16) IN
            IF n.ok THEN Ok(Voltage(n.n)) ELSE Err("InvalidValue")
        ELSE IF b = CH_PERCENT THEN
            LET n == ParseNumber(From(v, 1), I8) IN
            IF n.ok THEN Ok(Percentage(n.n)) ELSE Err("InvalidValue")
        ELSE Err("InvalidValue")

(***************************************************************************)
(* Request                                                                 *)
(***************************************************************************)
\* Fault: an empty method word in front of a value is reported as Empty.
DispatchEmptyWord(m, v) ==
    IF m = GET THEN MapGet(GetRequestParse(v))
    ELSE IF m = SET THEN MapSet(SetRequestParse(v))
    ELSE IF m = ADJ THEN MapAdj(AdjRequestParse(v))
    ELSE IF m = <<>> THEN Err("Empty")
    ELSE Err("UnknownRequestType")

\* The arms of `match method` when a value follows the method word.
Dispatch(m, v) ==
    IF m = GET THEN MapGet(GetRequestParse(v))
    ELSE IF m = SET THEN MapSet(SetRequestParse(v))
    ELSE IF m = ADJ THEN MapAdj(AdjRequestParse(v))
    ELSE Err("UnknownRequestType")

\* Fault: every bare word but the empty one is reported as MissingValue.
BareWordAlwaysMissing(m) ==
    IF m = <<>> THEN Err("Empty") ELSE Err("MissingValue")

\* The arms of `match method` when the input holds no space.
BareWord(m) ==
    IF m \in {GET, SET, ADJ} THEN Err("MissingValue")
    ELSE IF m = <<>> THEN Err("Empty")
    ELSE Err("UnknownRequestType")

\* The locals of Request::parse after the split.
SplitMethod(s) == LET p == Splitn2(s) IN IF Len(p) >= 1 THEN Some(p[1]) ELSE None
SplitVal(s) == LET p == Splitn2(s) IN IF Len(p) >= 2 THEN Some(p[2]) ELSE None

RequestParse(s) ==
    LET m == SplitMethod(s)
        v == SplitVal(s)
    IN
    IF ~m.some THEN Err("Empty")
    ELSE IF v.some THEN Dispatch(m.v, v.v)
    ELSE BareWord(m.v)

\* Display of an integer: its decimal digits, '-' in front of a negative one.
RECURSIVE FmtNat(_)
FmtNat(n) ==
    IF n < RADIX THEN <<CH_ZERO + n>>
    ELSE Append(FmtNat(n \div RADIX), CH_ZERO + (n % RADIX))

\* Fault: the sign of a negative number is not written.
FmtIntUnsigned(n) == IF n < 0 THEN FmtNat(-n) ELSE FmtNat(n)

FmtInt(n) == IF n < 0 THEN <<CH_MINUS>> \o FmtNat(-n) ELSE FmtNat(n)

FmtSet(r) ==
    CASE r.variant = "Voltage" -> SET \o <<SPACE, CH_v>> \o FmtInt(r.n)
      [] r.variant = "Percentage" -> SET \o <<SPACE, CH_PERCENT>> \o FmtInt(r.n)
      [] r.variant = "Auto" -> SET \o <<SPACE, CH_a>>

FmtAdj(r) ==
    CASE r.variant = "Voltage" -> ADJ \o <<SPACE, CH_v>> \o FmtInt(r.n)
      [] r.variant = "Percentage" -> ADJ \o <<SPACE, CH_PERCENT>> \o FmtInt(r.n)

Display(r) ==
    CASE r.kind = "Get" -> GET \o <<SPACE>> \o ValStr(r.r)
      [] r.kind = "Set" -> FmtSet(r.r)
      [] r.kind = "Adj" -> FmtAdj(r.r)

(***************************************************************************)
(* The inputs the operations are called with.                              *)
(***************************************************************************)
MaxValLen == 3     \* longest value drawn freely from ValueAlphabet
MaxZeros == 2      \* most leading zeros in front of a numeral
Window == 2        \* how far around each width boundary the numerals reach

SeqsUpTo(A, n) == UNION {[1..k -> A] : k \in 0..n}

\* ' ', 'a', 'b', 'v', '%', '+', '-', '0', '5', ';' and the first byte
\* outside ASCII
ValueAlphabet ==
    {SPACE, CH_a, 98, CH_v, CH_PERCENT, CH_PLUS, CH_MINUS, CH_ZERO, 53, 59, 128}

FreeValues == SeqsUpTo(ValueAlphabet, MaxValLen)

\* The decimal numeral of a natural number.
RECURSIVE Numeral(_)
Numeral(n) ==
    IF n < 10 THEN <<48 + n>> ELSE Numeral(n \div 10) \o <<48 + (n % 10)>>

Zeros(k) == [i \in 1..k |-> 48]

\* One past the largest magnitude of each payload type, and zero.
Limits == {0, 128, 256, 32768, 65536}

Magnitudes ==
    {55, 500} \cup
    {n \in UNION {(l - Window)..(l + Window) : l \in Limits} : n >= 0}

Signs == {<<>>, <<CH_PLUS>>, <<CH_MINUS>>}

NumericValues ==
    {<<p>> \o s \o Zeros(k) \o Numeral(n) :
        p \in {CH_v, CH_PERCENT}, s \in Signs, k \in 0..MaxZeros, n \in Magnitudes}

\* "all", "cfg", "%", "volt", "temp"
Tokens ==
    {<<97, 108, 108>>, <<99, 102, 103>>, <<37>>, <<118, 111, 108, 116>>,
     <<116, 101, 109, 112>>}

\* A token with its lower-case letters in upper case.
Upper(t) == [i \in 1..Len(t) |-> IF t[i] \in 97..122 THEN t[i] - 32 ELSE t[i]]

\* The tokens, and the tokens cut short, extended at either end, or in
\* another letter case.
TokenValues ==
    Tokens
    \cup UNION {{SubSeq(t, 1, k) : k \in 0..(Len(t) - 1)} : t \in Tokens}
    \cup {Upper(t) : t \in Tokens}
    \cup {t \o <<x>> : t \in Tokens, x \in {SPACE, 115, 59}}
    \cup {<<x>> \o t : t \in Tokens, x \in {SPACE, 120}}
    \cup {<<115, 104, 111, 101, 115, 105, 122, 101>>, <<53, 53>>}

Values == FreeValues \cup NumericValues \cup TokenValues

\* "get", "GE", "GETS", "LOL", "FETCH", a tab, a byte outside ASCII, "GET"
\* with such a byte after it
OtherWords ==
    {<<103, 101, 116>>, <<71, 69>>, <<71, 69, 84, 83>>, <<76, 79, 76>>,
     <<70, 69, 84, 67, 72>>, <<9>>, <<128>>, <<71, 69, 84, 255>>}

MethodWords == {<<>>, GET, SET, ADJ} \cup OtherWords

RequestInputs ==
    MethodWords
    \cup {m \o <<SPACE>> \o v : m \in {<<>>, GET, SET, ADJ}, v \in Values}
    \cup {m \o <<SPACE>> \o v : m \in OtherWords, v \in TokenValues}

\* Every value of each payload type.
Range(ty) == ty.min..ty.max

(***************************************************************************)
(* The state machine: one call at a time.                                  *)
(***************************************************************************)
Init ==
    /\ pc = "idle"
    /\ entry = "none"
    /\ input = <<>>
    /\ method = None
    /\ val = None
    /\ req = NoRequest
    /\ result = Pending

CallRequestParse ==
    /\ pc = "idle"
    /\ \E s \in RequestInputs :
        /\ input' = s
        /\ method' = SplitMethod(s)
        /\ val' = SplitVal(s)
        /\ result' = RequestParse(s)
    /\ entry' = "Request::parse"
    /\ pc' = "done"
    /\ UNCHANGED req

CallGetParse ==
    /\ pc = "idle"
    /\ \E v \in Values :
        /\ input' = v
        /\ val' = Some(v)
        /\ result' = GetRequestParse(v)
    /\ entry' = "GetRequest::parse"
    /\ pc' = "done"
    /\ UNCHANGED <<method, req>>

CallSetParse ==
    /\ pc = "idle"
    /\ \E v \in Values :
        /\ input' = v
        /\ val' = Some(v)
        /\ result' = SetRequestParse(v)
    /\ entry' = "SetRequest::parse"
    /\ pc' = "done"
    /\ UNCHANGED <<method, req>>

CallAdjParse ==
    /\ pc = "idle"
    /\ \E v \in Values :
        /\ input' = v
        /\ val' = Some(v)
        /\ result' = AdjRequestParse(v)
    /\ entry' = "AdjRequest::parse"
    /\ pc' = "done"
    /\ UNCHANGED <<method, req>>

\* format!("{}", r), for r of each variant
Rendered(r) ==
    /\ req' = r
    /\ input' = Display(r)
    /\ entry' = "Display"
    /\ pc' = "rendered"
    /\ UNCHANGED <<method, val, result>>

RenderGet ==
    /\ pc = "idle"
    /\ \E g \in GetVariants : Rendered(ReqGet(g))

RenderSetAuto ==
    /\ pc = "idle"
    /\ Rendered(ReqSet(Auto))

RenderSetVoltage ==
    /\ pc = "idle"
    /\ \E n \in Range(U16) : Rendered(ReqSet(Voltage(n)))

RenderSetPercentage ==
    /\ pc = "idle"
    /\ \E n \in Range(U8) : Rendered(ReqSet(Percentage(n)))

RenderAdjVoltage ==
    /\ pc = "idle"
    /\ \E n \in Range(I16) : Rendered(ReqAdj(Voltage(n)))

RenderAdjPercentage ==
    /\ pc = "idle"
    /\ \E n \in Range(I8) : Rendered(ReqAdj(Percentage(n)))

\* Request::parse of the rendering
ParseRendered ==
    /\ pc = "rendered"
    /\ method' = SplitMethod(input)
    /\ val' = SplitVal(input)
    /\ result' = RequestParse(input)
    /\ entry' = "Request::parse"
    /\ pc' = "done"
    /\ UNCHANGED <<input, req>>

Next == CallRequestParse \/ CallGetParse \/ CallSetParse \/ CallAdjParse

Spec == Init /\ [][Next]_vars

NextRoundTrip ==
    \/ RenderGet
    \/ RenderSetAuto
    \/ RenderSetVoltage
    \/ RenderSetPercentage
    \/ RenderAdjVoltage
    \/ RenderAdjPercentage
    \/ ParseRendered

SpecRoundTrip == Init /\ [][NextRoundTrip]_vars

(***************************************************************************)
(* What the properties are stated with.  These definitions describe byte   *)
(* strings; none of them is used by the operators above.                   *)
(***************************************************************************)
Called(e) == pc = "done" /\ entry = e

IsDigit(b) == b \in 48..57
IsNumeral(s) == Len(s) >= 1 /\ \A i \in 1..Len(s) : IsDigit(s[i])

\* The number a numeral denotes.
RECURSIVE NumeralValue(_)
NumeralValue(s) ==
    IF Len(s) = 0 THEN 0
    ELSE 10 * NumeralValue(SubSeq(s, 1, Len(s) - 1)) + (s[Len(s)] - 48)

\* A numeral with at most one sign in front, and the number it denotes.
IsSignedNumeral(s) ==
    \/ IsNumeral(s)
    \/ Len(s) >= 2 /\ s[1] \in {43, 45} /\ IsNumeral(Tail(s))

SignedValue(s) ==
    IF s[1] = 45 THEN 0 - NumeralValue(Tail(s))
    ELSE IF s[1] = 43 THEN NumeralValue(Tail(s))
    ELSE NumeralValue(s)

SpacesIn(s) == {i \in 1..Len(s) : s[i] = 32}
HasSpace(s) == SpacesIn(s) # {}
FirstSpaceAt(s) == CHOOSE i \in SpacesIn(s) : \A j \in SpacesIn(s) : i <= j

\* The bytes before the first space (all of them when there is none), and
\* the bytes after it.
MethodWord(s) == IF HasSpace(s) THEN SubSeq(s, 1, FirstSpaceAt(s) - 1) ELSE s
AfterFirstSpace(s) == SubSeq(s, FirstSpaceAt(s) + 1, Len(s))

KnownWords == {<<71, 69, 84>>, <<83, 69, 84>>, <<65, 68, 74>>}

\* s is the method word w, a space, the byte p and something more
HasPayload(s, w, p) == Len(s) >= 5 /\ SubSeq(s, 1, 5) = w \o <<32, p>>
PayloadOf(s) == SubSeq(s, 6, Len(s))

InvalidValue == Err("InvalidValue")

\* What a payload that denotes n parses to: the variant when n fits.
Fits(n, lo, hi, value) == IF lo <= n /\ n <= hi THEN Ok(value) ELSE InvalidValue

(***************************************************************************)
(* C1.  Round trip: Request::parse of the Display rendering of a request   *)
(* r returns Ok(r), for every request of every variant and payload.        *)
(***************************************************************************)
C1_RoundTrip == pc = "done" => result = Ok(req)

\* "ADJ v-32768" was rendered from Adj(Voltage(-32768)) and parsed back
C1_Witness ==
    /\ pc = "done"
    /\ req = ReqAdj(Voltage(-32768))
    /\ input = <<65, 68, 74, 32, 118, 45, 51, 50, 55, 54, 56>>
    /\ result = Ok(req)

(***************************************************************************)
(* C2.  Dispatch precedence of Request::parse: the zero-length input is    *)
(* Empty; GET, SET or ADJ alone is MissingValue; a non-empty input whose   *)
(* method word is none of the three is UnknownRequestType, with or without *)
(* a value.                                                                *)
(***************************************************************************)
C2_DispatchPrecedence ==
    Called("Request::parse") =>
        /\ input = <<>> => result = Err("Empty")
        /\ input \in KnownWords => result = Err("MissingValue")
        /\ (input # <<>> /\ MethodWord(input) \notin KnownWords)
              => result = Err("UnknownRequestType")

\* "LOL all" and "LOL" are both UnknownRequestType; here the one with a value
C2_Witness ==
    /\ Called("Request::parse")
    /\ input = <<76, 79, 76, 32, 97, 108, 108>>
    /\ result = Err("UnknownRequestType")

(***************************************************************************)
(* C3.  As claimed: Request::parse returns Empty for every input with no   *)
(* method word at all, the zero-length input and the inputs made of        *)
(* whitespace only.                                                        *)
(***************************************************************************)
IsBlank(s) == \A i \in 1..Len(s) : s[i] \in {32, 9}

C3_EmptyForBlankInput ==
    (Called("Request::parse") /\ IsBlank(input)) => result = Err("Empty")

(***************************************************************************)
(* C3, amended.  Request::parse returns Empty for the zero-length input    *)
(* and for no other; an input that starts with a space has the empty       *)
(* method word in front of a value and is UnknownRequestType.              *)
(***************************************************************************)
C3_EmptyOnlyForZeroLength ==
    Called("Request::parse") =>
        /\ result = Err("Empty") <=> input = <<>>
        /\ (input # <<>> /\ input[1] = 32) => result = Err("UnknownRequestType")

\* a single space
C3_Witness ==
    /\ Called("Request::parse")
    /\ input = <<32>>
    /\ result = Err("UnknownRequestType")

(***************************************************************************)
(* C4.  GetRequest tokens: GetRequest::parse(val_str(v)) = Ok(v) for every *)
(* variant v; the tokens are all, cfg, %, temp, volt, no two the same; any *)
(* other byte string, the empty one included, is InvalidValue.             *)
(***************************************************************************)
C4_TokenBijection ==
    /\ {ValStr(g) : g \in GetVariants} =
          {<<97, 108, 108>>, <<99, 102, 103>>, <<37>>, <<116, 101, 109, 112>>,
           <<118, 111, 108, 116>>}
    /\ \A g, h \in GetVariants : ValStr(g) = ValStr(h) => g = h
    /\ Called("GetRequest::parse") =>
          /\ \A g \in GetVariants : input = ValStr(g) => result = Ok(g)
          /\ (\A g \in GetVariants : input # ValStr(g)) => result = InvalidValue

\* "volt"
C4_Witness ==
    /\ Called("GetRequest::parse")
    /\ input = <<118, 111, 108, 116>>
    /\ result = Ok(GetRequest("Voltage"))

(***************************************************************************)
(* C5.  Width boundaries: a payload of decimal digits, leading zeros       *)
(* allowed (and for ADJ a '-' in front), is accepted exactly when the      *)
(* number fits the type: u16 for SET v, u8 for SET %, i16 for ADJ v, i8    *)
(* for ADJ %.  A number that does not fit is InvalidValue, never wrapped.  *)
(***************************************************************************)
IsNegNumeral(s) == Len(s) >= 2 /\ s[1] = 45 /\ IsNumeral(Tail(s))

C5_WidthBoundaries ==
    Called("Request::parse") =>
        LET d == PayloadOf(input)
            n == SignedValue(d)
        IN
        /\ (HasPayload(input, <<83, 69, 84>>, 118) /\ IsNumeral(d))
              => result = Fits(n, 0, 65535, ReqSet(Voltage(n)))
        /\ (HasPayload(input, <<83, 69, 84>>, 37) /\ IsNumeral(d))
              => result = Fits(n, 0, 255, ReqSet(Percentage(n)))
        /\ (HasPayload(input, <<65, 68, 74>>, 118) /\ (IsNumeral(d) \/ IsNegNumeral(d)))
              => result = Fits(n, -32768, 32767, ReqAdj(Voltage(n)))
        /\ (HasPayload(input, <<65, 68, 74>>, 37) /\ (IsNumeral(d) \/ IsNegNumeral(d)))
              => result = Fits(n, -128, 127, ReqAdj(Percentage(n)))

\* "SET v65536"
C5_Witness ==
    /\ Called("Request::parse")
    /\ input = <<83, 69, 84, 32, 118, 54, 53, 53, 51, 54>>
    /\ result = InvalidValue

(***************************************************************************)
(* C6.  Sign handling: SetRequest::parse rejects every v or % payload that *)
(* starts with '-'; AdjRequest::parse accepts one optional '+' or '-' and  *)
(* at least one digit ("%+55" is Percentage(55), "v+02" is Voltage(2));    *)
(* for both an empty payload or a sign alone is InvalidValue.              *)
(***************************************************************************)
C6_SignHandling ==
    LET d == Tail(input) IN
    /\ (Called("SetRequest::parse") /\ Len(input) >= 2 /\ input[1] \in {118, 37}
          /\ input[2] = 45) => result = InvalidValue
    /\ (Called("AdjRequest::parse") /\ Len(input) >= 1 /\ input[1] = 118)
          => result = IF IsSignedNumeral(d)
                      THEN Fits(SignedValue(d), -32768, 32767, Voltage(SignedValue(d)))
                      ELSE InvalidValue
    /\ (Called("AdjRequest::parse") /\ Len(input) >= 1 /\ input[1] = 37)
          => result = IF IsSignedNumeral(d)
                      THEN Fits(SignedValue(d), -128, 127, Percentage(SignedValue(d)))
                      ELSE InvalidValue
    /\ (Called("AdjRequest::parse") /\ input = <<37, 43, 53, 53>>)
          => result = Ok(Percentage(55))
    /\ (Called("AdjRequest::parse") /\ input = <<118, 43, 48, 50>>)
          => result = Ok(Voltage(2))
    /\ ((Called("SetRequest::parse") \/ Called("AdjRequest::parse"))
          /\ Len(input) >= 1 /\ input[1] \in {118, 37}
          /\ d \in {<<>>, <<43>>, <<45>>}) => result = InvalidValue

\* SetRequest::parse of "v-0"
C6_Witness ==
    /\ Called("SetRequest::parse")
    /\ input = <<118, 45, 48>>
    /\ result = InvalidValue

(***************************************************************************)
(* C7.  Auto exactness: SetRequest::parse returns Auto for the one byte    *)
(* 'a' and for nothing else; 'a' followed by anything is InvalidValue;     *)
(* AdjRequest::parse does not accept "a".                                  *)
(***************************************************************************)
C7_AutoExactness ==
    /\ Called("SetRequest::parse") =>
          /\ result = Ok(Auto) <=> input = <<97>>
          /\ (Len(input) > 1 /\ input[1] = 97) => result = InvalidValue
    /\ (Called("AdjRequest::parse") /\ input = <<97>>) => result = InvalidValue
    /\ Called("Request::parse") =>
          (result = Ok(ReqSet(Auto)) <=> input = <<83, 69, 84, 32, 97>>)

\* SetRequest::parse of "a5"
C7_Witness ==
    /\ Called("SetRequest::parse")
    /\ input = <<97, 53>>
    /\ result = InvalidValue

(***************************************************************************)
(* C8.  Only the first space delimits: the value handed to the sub-parser  *)
(* is everything after the first space, and an input with a known method   *)
(* word whose value holds a space is InvalidValue.                         *)
(***************************************************************************)
C8_FirstSpaceOnly ==
    (Called("Request::parse") /\ HasSpace(input)) =>
        /\ method = Some(MethodWord(input))
        /\ val = Some(AfterFirstSpace(input))
        /\ (MethodWord(input) \in KnownWords /\ HasSpace(AfterFirstSpace(input)))
              => result = InvalidValue

\* "SET v5 ": a valid value and a trailing space
C8_Witness ==
    /\ Called("Request::parse")
    /\ input = <<83, 69, 84, 32, 118, 53, 32>>
    /\ val = Some(<<118, 53, 32>>)
    /\ result = InvalidValue

(***************************************************************************)
(* C9.  Present but empty value: "GET " is InvalidValue, "SET " and "ADJ " *)
(* are MissingValue; Request::parse returns MissingValue for "GET", "SET", *)
(* "ADJ", "SET " and "ADJ " and for no other input.                        *)
(***************************************************************************)
C9_PresentButEmpty ==
    Called("Request::parse") =>
        /\ input = <<71, 69, 84, 32>> => result = InvalidValue
        /\ input \in {<<83, 69, 84, 32>>, <<65, 68, 74, 32>>}
              => (val = Some(<<>>) /\ result = Err("MissingValue"))
        /\ result = Err("MissingValue") <=>
              input \in {<<71, 69, 84>>, <<83, 69, 84>>, <<65, 68, 74>>,
                         <<83, 69, 84, 32>>, <<65, 68, 74, 32>>}

\* "SET "
C9_Witness ==
    /\ Called("Request::parse")
    /\ input = <<83, 69, 84, 32>>
    /\ val = Some(<<>>)
    /\ result = Err("MissingValue")

(***************************************************************************)
(* C10.  Totality: Request::parse returns, for every input, a request      *)
(* (with its payload in the range of its type) or one of the four errors,  *)
(* and never indexes outside the value; an input that holds a byte of 128  *)
(* or more is an error.                                                    *)
(***************************************************************************)
IsRequestValue(r) ==
    \/ r.kind = "Get" /\ r.r \in GetVariants
    \/ r.kind = "Set" /\ r.r.variant = "Auto"
    \/ r.kind = "Set" /\ r.r.variant = "Voltage" /\ r.r.n \in 0..65535
    \/ r.kind = "Set" /\ r.r.variant = "Percentage" /\ r.r.n \in 0..255
    \/ r.kind = "Adj" /\ r.r.variant = "Voltage" /\ r.r.n \in -32768..32767
    \/ r.kind = "Adj" /\ r.r.variant = "Percentage" /\ r.r.n \in -128..127

C10_Totality ==
    Called("Request::parse") =>
        /\ result.tag \in {"Ok", "Err"}
        /\ result.tag = "Err" => result.e \in Errors
        /\ result.tag = "Ok" => IsRequestValue(result.v)
        /\ (\E i \in 1..Len(input) : input[i] >= 128) => result.tag = "Err"

\* "SET v5" followed by the byte 128
C10_Witness ==
    /\ Called("Request::parse")
    /\ input = <<83, 69, 84, 32, 118, 53, 128>>
    /\ result = InvalidValue

=============================================================================
